---- MODULE Spec2Model ----
(***************************************************************************)
(* Entity resolution, preparation pipeline and batched submission of the   *)
(* DFP line-item generator (scripts/*.js and the Dfp wrapper they drive).  *)
(***************************************************************************)
EXTENDS Integers, Sequences, FiniteSets, TLC

(***************************************************************************)
(* Bounds of the model.                                                    *)
(***************************************************************************)
NumTasks == 2
MaxResolutions == 3
MaxCpm == 2
MaxLineItems == 10
MaxPrepares == 2

Tasks == 1..NumTasks

(***************************************************************************)
(* JavaScript values.                                                      *)
(***************************************************************************)
\* the JavaScript value undefined; `undefined + ':' + v` prints it like this
Undefined == "undefined"
\* absence of a value in the model's own bookkeeping
None == "none"

\* obj[f] of a JavaScript object: undefined when the property is absent
Prop(obj, f) == IF f \in DOMAIN obj THEN obj[f] ELSE Undefined

\* the truthiness test of `if (conditions[field])` on a string or undefined
Truthy(v) == v # Undefined /\ v # ""

Ok(v) == [ok |-> TRUE, val |-> v]
Throw(e) == [ok |-> FALSE, val |-> e]

(***************************************************************************)
(* Queryable fields of each remote service.                                *)
(***************************************************************************)
CRITERIA_VALUE_FIELDS == <<"id", "customTargetingKeyId", "name", "displayName", "matchType">>
CRITERIA_KEY_FIELDS == <<"id", "name", "displayName", "type">>
AD_UNIT_FIELDS == <<"adUnitCode", "id", "name", "parentId", "status", "lastModifiedDateTime">>
ORDER_FIELDS == <<"advertiserId", "endDateTime", "id", "name", "salespersonId", "startDateTime", "status", "traffickerId", "lastModifiedDateTime">>
ADVERTISER_FIELDS == <<"id", "name", "type", "lastModifiedDateTime">>
LABEL_FIELDS == <<"id", "type", "name", "description", "isActive">>

(***************************************************************************)
(* _makeQuery: the 'Where' string, one "field like 'value' and " per       *)
(* queryable field with a truthy condition, the final ' and ' removed.     *)
(* `clauses` is the same filter as the list of (field, value) the string   *)
(* spells out, which is what the remote platform evaluates.                *)
(***************************************************************************)
AdditionUnguarded(conditions, field) ==
  field \o " like '" \o Prop(conditions, field) \o "' and "
Addition(conditions, field) ==
  IF Truthy(Prop(conditions, field))
    THEN field \o " like '" \o conditions[field] \o "' and "
    ELSE ""

RECURSIVE WhereString(_, _, _)
WhereString(conditions, fields, n) ==
  IF n = 0 THEN "Where "
  ELSE WhereString(conditions, fields, n - 1) \o Addition(conditions, fields[n])

RemoveFinalAndNever(q) == q
RemoveFinalAnd(q) ==
  IF Len(q) >= 5 /\ SubSeq(q, Len(q) - 4, Len(q)) = " and "
    THEN SubSeq(q, 1, Len(q) - 5)
    ELSE q

RECURSIVE WhereClauses(_, _, _)
WhereClauses(conditions, fields, n) ==
  IF n = 0 THEN <<>>
  ELSE WhereClauses(conditions, fields, n - 1) \o
       (IF Truthy(Prop(conditions, fields[n]))
          THEN << <<fields[n], conditions[fields[n]]>> >>
          ELSE <<>>)

_makeQuery(conditions, fields) ==
  [query |-> RemoveFinalAnd(WhereString(conditions, fields, Len(fields))),
   clauses |-> WhereClauses(conditions, fields, Len(fields))]

\* the hand-built statement of getCriteriaValue
CriteriaValueQuery(conditions) ==
  [query |-> "Where customTargetingKeyId = '" \o Prop(conditions, "customTargetingKeyId")
             \o "' and name like '" \o Prop(conditions, "name") \o "'",
   clauses |-> << <<"customTargetingKeyId", Prop(conditions, "customTargetingKeyId")>>,
                  <<"name", Prop(conditions, "name")>> >>]

(***************************************************************************)
(* The remote platform: a stable table of entities per service, in the     *)
(* order the server returns them.                                          *)
(***************************************************************************)
Namespaces == {"criteriaKey", "criteriaValue", "adUnit", "order", "label"}
Services == Namespaces \cup {"advertiser"}

RemoteEntities(service) ==
  CASE service = "criteriaKey" ->
         << [name |-> "hb_pb", id |-> "K1"], [name |-> "hb_size", id |-> "K2"],
            [name |-> "hb_noid"] >>
    [] service = "criteriaValue" ->
         << [name |-> "0.50", id |-> "V1", customTargetingKeyId |-> "K1"],
            [name |-> "0.50", id |-> "V2", customTargetingKeyId |-> "K2"],
            [name |-> "1.00", id |-> "V3", customTargetingKeyId |-> "K1"],
            [name |-> "1.50", id |-> "V4", customTargetingKeyId |-> "K1"] >>
    [] service = "adUnit" ->
         << [name |-> "TV2no", id |-> "21661848134"] >>
    [] service = "order" ->
         << [name |-> "other_order", id |-> "O1"],
            [name |-> "yo_first_order", id |-> "O2"],
            [name |-> "yo_first_order", id |-> "O3"] >>
    [] service = "label" ->
         << [name |-> "lab", id |-> "L1"] >>
    [] service = "advertiser" ->
         << [name |-> "Prebid", id |-> "A1", type |-> "ADVERTISER"],
            [name |-> "Acme", id |-> "A2", type |-> "ADVERTISER"] >>

Matches(entity, clauses) ==
  \A i \in 1..Len(clauses) : Prop(entity, clauses[i][1]) = clauses[i][2]

\* what a response holds when nothing matches: no `results` property, or an
\* empty list
NoMatchShapes == {"absent", "empty"}

\* the response of a ...ByStatement call
RemoteResponse(service, statement, noMatch) ==
  LET found == SelectSeq(RemoteEntities(service), LAMBDA e : Matches(e, statement.clauses))
  IN IF found = <<>>
       THEN IF noMatch = "absent" THEN [totalResultSetSize |-> 0]
            ELSE [totalResultSetSize |-> 0, results |-> <<>>]
       ELSE [totalResultSetSize |-> Len(found), results |-> found]

extractResults(response) ==
  IF "results" \notin DOMAIN response
    THEN Throw("Expected to find results, but there were none")
    ELSE Ok(response.results)

extractFirstIdUnchecked(results) ==
  IF Len(results) = 0
    THEN Throw("expected to find an id, but didnt")
    ELSE Ok(Prop(results[1], "id"))
extractFirstId(results) ==
  IF Len(results) = 0 \/ ~Truthy(Prop(results[1], "id"))
    THEN Throw("expected to find an id, but didnt")
    ELSE Ok(results[1].id)

\* .then(extractResults).then(extractFirstId) on a response
LastIdOf(response) ==
  LET r == extractResults(response)
  IN IF r.ok /\ Len(r.val) > 0 THEN extractFirstId(<< r.val[Len(r.val)] >>)
     ELSE IF r.ok THEN extractFirstId(r.val) ELSE r
FirstIdOf(response) ==
  LET r == extractResults(response)
  IN IF r.ok THEN extractFirstId(r.val) ELSE r

(***************************************************************************)
(* The five cached lookups.                                                *)
(***************************************************************************)
\* String(key) of the store's utf8 key encoding, applied to a Statement object
StatementAsKey(statement) == "[object Object]"

LookupConditions(ns, name, keyId) ==
  IF ns = "criteriaValue"
    THEN [name |-> name, customTargetingKeyId |-> keyId]
    ELSE [name |-> name]

\* the queryable fields a get...(conditions) method hands to _makeQuery
FieldsOf(service) ==
  CASE service = "criteriaKey" -> CRITERIA_KEY_FIELDS
    [] service = "criteriaValue" -> CRITERIA_VALUE_FIELDS
    [] service = "adUnit" -> AD_UNIT_FIELDS
    [] service = "order" -> ORDER_FIELDS
    [] service = "label" -> LABEL_FIELDS
    [] service = "advertiser" -> ADVERTISER_FIELDS

\* the statement getCriteriaKey, getCriteriaValue, getAdUnit, getOrder, getLabel
\* or getAdvertiser builds from its conditions
StatementOf(service, conditions) ==
  IF service = "criteriaValue"
    THEN CriteriaValueQuery(conditions)
    ELSE _makeQuery(conditions, FieldsOf(service))

LookupQuery(ns, name, keyId) == StatementOf(ns, LookupConditions(ns, name, keyId))

\* lookupKey of lookupCriteriaValues: keyId + ':' + value
lookupKeyValueOnly(keyId, value) == value
lookupKey(keyId, value) == keyId \o ":" \o value

\* the key handed to store.getAsync
ReadKey(ns, name, keyId) ==
  CASE ns = "criteriaKey" -> name
    [] ns = "criteriaValue" -> lookupKey(keyId, name)
    [] ns = "adUnit" -> StatementAsKey(LookupQuery(ns, name, keyId))
    [] ns = "order" -> name
    [] ns = "label" -> name

\* the key handed to store.putAsync
WriteKey(ns, name, keyId) ==
  CASE ns = "criteriaKey" -> name
    [] ns = "criteriaValue" -> lookupKey(keyId, name)
    [] ns = "adUnit" -> name
    [] ns = "order" -> name
    [] ns = "label" -> name

\* get()/put() of the store reject a null or undefined key
StoreHitNever(s, key) == FALSE
StoreHit(s, key) == key # Undefined /\ key \in DOMAIN s
StorePutOk(key) == key # Undefined
StorePutDroppingOthers(s, key, id) == [k \in {key} |-> id]
StorePut(s, key, id) == [k \in DOMAIN s \cup {key} |-> IF k = key THEN id ELSE s[k]]

\* what a lookup does when putAsync rejects: the handlers log and `throw e`
\* (getAdUnit has no handler: the rejection of .tap propagates)
AfterPutFailureSwallowed(ns) == "done"
AfterPutFailure(ns) == "failed"

(***************************************************************************)
(* formatter.generatePricePoints(start, end): below 100, i and i + 0.5     *)
(* (only '0.50' for 0), printed with two decimals.                         *)
(***************************************************************************)
PointsOf(i) ==
  IF i < 100
    THEN IF i = 0 THEN << "0.50" >>
         ELSE << ToString(i) \o ".00", ToString(i) \o ".50" >>
    ELSE << ToString(i) \o ".00" >>

RECURSIVE generatePricePoints(_, _)
generatePricePoints(start, end) ==
  IF start > end THEN <<>>
  ELSE generatePricePoints(start, end - 1) \o PointsOf(end)

(***************************************************************************)
(* Objects live in a heap of cells so that aliasing shows: a line item is  *)
(* a top-level cell whose `targeting` property refers to a second cell.    *)
(***************************************************************************)
SetProp(cell, f, v) == [k \in DOMAIN cell \cup {f} |-> IF k = f THEN v ELSE cell[k]]
DeleteProp(cell, f) == [k \in DOMAIN cell \ {f} |-> cell[k]]

TargetingRef(ref) == ref \o ".targeting"

\* the value of the object at ref, nested cell included (what deep equality compares)
Deref(h, ref) ==
  IF "targeting" \in DOMAIN h[ref]
    THEN [h[ref] EXCEPT !.targeting = h[h[ref].targeting]]
    ELSE h[ref]

\* puts the value obj (a record, `targeting` nested) in the heap at ref
Alloc(h, ref, obj) ==
  IF "targeting" \in DOMAIN obj
    THEN [r \in DOMAIN h \cup {ref, TargetingRef(ref)} |->
            IF r = ref THEN [obj EXCEPT !.targeting = TargetingRef(ref)]
            ELSE IF r = TargetingRef(ref) THEN obj.targeting
            ELSE h[r]]
    ELSE [r \in DOMAIN h \cup {ref} |-> IF r = ref THEN obj ELSE h[r]]

\* _.cloneDeep(_lineItem): a new object at `fresh`, sharing nothing with `ref`
cloneDeepShallow(h, ref, fresh) ==
  [heap |-> [r \in DOMAIN h \cup {fresh} |-> IF r = fresh THEN h[ref] ELSE h[r]], ref |-> fresh]
cloneDeep(h, ref, fresh) == [heap |-> Alloc(h, fresh, Deref(h, ref)), ref |-> fresh]

(***************************************************************************)
(* State.                                                                  *)
(*   store        the five leveldb stores, each a map from key to id       *)
(*   remoteCalls  executeAPIFunction calls issued so far, per service      *)
(*   lk           per task, the lookup it has in flight                    *)
(*   resolved     per request, the id of its first successful resolution   *)
(*   starts       lookups started so far, per namespace                    *)
(*   job          per task, the position of its prepare...() pipeline      *)
(*   heap         per task, the objects its pipeline works on              *)
(*   argv         the command-line arguments of the script                 *)
(*   script       the script that runs (None outside SpecScripts)           *)
(*   items        the collection the script's main chain maps over         *)
(*   batches      splitBatches(items), for the association scripts         *)
(*   unit         per element of the mapped collection: pending, running,  *)
(*                fulfilled or rejected                                    *)
(*   out          per element, the value its mapper resolved with          *)
(*   settled      the elements in the order their mappers settled          *)
(*   chain        the position of the script's main promise chain          *)
(*   submitted    the inputs of the create/delete calls issued so far      *)
(*   ticks        progressBar.tick() calls so far                          *)
(***************************************************************************)
VARIABLES store, remoteCalls, lk, resolved, starts, job, heap,
          argv, script, items, batches, unit, out, settled, chain, submitted, ticks

lookupVars == <<store, remoteCalls, lk, resolved, starts>>
pipeVars == <<job, heap>>
runVars == <<argv, script, items, batches, unit, out, settled, chain, submitted, ticks>>
vars == <<store, remoteCalls, lk, resolved, starts, job, heap,
          argv, script, items, batches, unit, out, settled, chain, submitted, ticks>>

\* the names asked for
KeyNames == {"hb_pb", "hb_size", "hb_none", "hb_noid"}
ValueNames ==
  LET all == generatePricePoints(0, MaxCpm) IN {all[i] : i \in 1..Len(all)} \cup {"0.50", "1.00"}
KeyIds == {"K1", "K2"}
Requests ==
  {<<"criteriaKey", k, None>> : k \in KeyNames \cup {Undefined}}
  \cup {<<"criteriaValue", v, k>> : v \in ValueNames, k \in KeyIds}
  \cup {<<"adUnit", n, None>> : n \in {"TV2no", Undefined}}
  \cup {<<"order", n, None>> : n \in {"yo_first_order", "no_order", Undefined}}
  \cup {<<"label", "lab", None>>}
  \cup {<<"advertiser", n, None>> : n \in {"Prebid", "Nobody", Undefined}}

\* what the resolver's callers ask for directly
DriverRequests ==
  {<<"criteriaKey", "hb_pb", None>>, <<"criteriaKey", "hb_none", None>>,
   <<"criteriaKey", "hb_noid", None>>,
   <<"criteriaValue", "0.50", "K1">>, <<"criteriaValue", "0.50", "K2">>,
   <<"adUnit", "TV2no", None>>,
   <<"order", "yo_first_order", None>>, <<"order", "no_order", None>>,
   <<"label", "lab", None>>}

EmptyObject == [k \in {} |-> None]

\* no statement is built before the cache answered
IdleLookup ==
  [pc |-> "idle", ns |-> None, name |-> None, keyId |-> None, id |-> None,
   ret |-> None, err |-> None, calls |-> 0, prior |-> None, putFailed |-> FALSE,
   conditions |-> EmptyObject, query |-> EmptyObject]

EmptyStore == [k \in {} |-> None]
EmptyHeap == [r \in {} |-> None]

IdleJob ==
  [pc |-> "idle", kind |-> None, cur |-> None, orig |-> EmptyObject, pairs |-> <<>>,
   keyIds |-> <<>>, valueIds |-> <<>>, todo |-> {}, at |-> <<>>, criteria |-> <<>>,
   err |-> None]

InitLookups(tasks) ==
  /\ store = [ns \in Namespaces |-> EmptyStore]
  /\ remoteCalls = [s \in Services |-> 0]
  /\ lk = [t \in tasks |-> IdleLookup]
  /\ resolved = [r \in Requests |-> None]
  /\ starts = [s \in Services |-> 0]

InitJobs(tasks) ==
  /\ job = [t \in tasks |-> IdleJob]
  /\ heap = [t \in tasks |-> EmptyHeap]

TotalStarts == starts["criteriaKey"] + starts["criteriaValue"] + starts["adUnit"]
               + starts["order"] + starts["label"] + starts["advertiser"]

\* the lookup frame of a call of lookupCriteriaKey, lookupCriteriaValues, getAdUnit,
\* getOrder or lookupLabel: store.getAsync(key) is issued
NewLookup(ns, name, keyId) ==
  [IdleLookup EXCEPT !.pc = "get", !.ns = ns, !.name = name, !.keyId = keyId,
                     !.prior = resolved[<<ns, name, keyId>>]]

\* a caller invokes a lookup
StartLookup(t, ns, name, keyId) ==
  /\ lk[t].pc = "idle"
  /\ TotalStarts < MaxResolutions
  /\ lk' = [lk EXCEPT ![t] = NewLookup(ns, name, keyId)]
  /\ starts' = [starts EXCEPT ![ns] = @ + 1]
  /\ UNCHANGED <<store, remoteCalls, resolved, job, heap>>

\* the value a lookup resolves with: lookupCriteriaValues wraps the id in a list
ResultOf(ns, id) == IF ns = "criteriaValue" THEN <<id>> ELSE id

\* getAsync settles: a hit resolves the lookup, a miss (.catch) issues the remote
\* call
CacheGet(t) ==
  /\ lk[t].pc = "get"
  /\ LET l == lk[t] IN
     IF StoreHit(store[l.ns], ReadKey(l.ns, l.name, l.keyId))
       THEN LET id == store[l.ns][ReadKey(l.ns, l.name, l.keyId)] IN
            /\ lk' = [lk EXCEPT ![t].pc = "done", ![t].id = id, ![t].ret = ResultOf(l.ns, id)]
            /\ resolved' = [resolved EXCEPT ![<<l.ns, l.name, l.keyId>>] =
                              IF @ = None THEN id ELSE @]
            /\ UNCHANGED remoteCalls
       ELSE /\ lk' = [lk EXCEPT ![t].pc = "remote", ![t].calls = @ + 1,
                                 ![t].conditions = LookupConditions(l.ns, l.name, l.keyId),
                                 ![t].query = LookupQuery(l.ns, l.name, l.keyId)]
            /\ remoteCalls' = [remoteCalls EXCEPT ![l.ns] = @ + 1]
            /\ UNCHANGED resolved
  /\ UNCHANGED <<store, starts, job, heap>>

\* executeAPIFunction settles: a transport error, or a response run through
\* extractResults and extractFirstId; on an id, putAsync is issued (.tap)
RemoteReturn(t) ==
  /\ lk[t].pc = "remote"
  /\ LET l == lk[t] IN
     \E transportOk \in BOOLEAN, noMatch \in NoMatchShapes :
       LET r == IF transportOk
                  THEN FirstIdOf(RemoteResponse(l.ns, l.query, noMatch))
                  ELSE Throw("remote call failed")
       IN /\ lk' = [lk EXCEPT ![t] =
                      IF ~r.ok THEN [l EXCEPT !.pc = "failed", !.err = r.val]
                      ELSE IF l.ns = "advertiser"
                        THEN [l EXCEPT !.pc = "done", !.id = r.val, !.ret = r.val]
                      ELSE [l EXCEPT !.pc = "put", !.id = r.val]]
          /\ resolved' = IF r.ok /\ l.ns = "advertiser"
                             /\ <<l.ns, l.name, l.keyId>> \in DOMAIN resolved
                           THEN [resolved EXCEPT ![<<l.ns, l.name, l.keyId>>] =
                                   IF @ = None THEN r.val ELSE @]
                           ELSE resolved
  /\ UNCHANGED <<store, remoteCalls, starts, job, heap>>

\* putAsync settles: the entry is written and the lookup resolves with the id,
\* or the write fails
PutReturn(t) ==
  /\ lk[t].pc = "put"
  /\ LET l == lk[t]
         key == WriteKey(l.ns, l.name, l.keyId)
     IN \E writeOk \in BOOLEAN :
          IF writeOk /\ StorePutOk(key)
            THEN /\ store' = [store EXCEPT ![l.ns] = StorePut(@, key, l.id)]
                 /\ lk' = [lk EXCEPT ![t].pc = "done", ![t].ret = ResultOf(l.ns, l.id)]
                 /\ resolved' = [resolved EXCEPT ![<<l.ns, l.name, l.keyId>>] =
                                   IF @ = None THEN l.id ELSE @]
            ELSE /\ lk' = [lk EXCEPT ![t] =
                             IF AfterPutFailure(l.ns) = "done"
                               THEN [l EXCEPT !.pc = "done", !.putFailed = TRUE,
                                              !.ret = ResultOf(l.ns, l.id)]
                               ELSE [l EXCEPT !.pc = "failed", !.putFailed = TRUE,
                                              !.err = "put failed"]]
                 /\ UNCHANGED <<store, resolved>>
  /\ UNCHANGED <<remoteCalls, starts, job, heap>>

\* the caller takes the outcome
FinishLookup(t) ==
  /\ lk[t].pc \in {"done", "failed"}
  /\ lk' = [lk EXCEPT ![t] = IdleLookup]
  /\ UNCHANGED <<store, remoteCalls, resolved, starts, job, heap>>

(***************************************************************************)
(* SpecResolver: callers resolve names one after the other or concurrently.*)
(***************************************************************************)
NoScript ==
  /\ argv = EmptyObject
  /\ script = None
  /\ items = <<>>
  /\ batches = <<>>
  /\ unit = <<>>
  /\ out = <<>>
  /\ settled = <<>>
  /\ chain = None
  /\ submitted = <<>>
  /\ ticks = 0

InitResolver == InitLookups(Tasks) /\ InitJobs(Tasks) /\ NoScript

NextResolver ==
  \/ \E t \in Tasks, r \in DriverRequests : StartLookup(t, r[1], r[2], r[3]) /\ UNCHANGED runVars
  \/ \E t \in Tasks : CacheGet(t) /\ UNCHANGED runVars
  \/ \E t \in Tasks : RemoteReturn(t) /\ UNCHANGED runVars
  \/ \E t \in Tasks : PutReturn(t) /\ UNCHANGED runVars
  \/ \E t \in Tasks : FinishLookup(t) /\ UNCHANGED runVars

SpecResolver == InitResolver /\ [][NextResolver]_vars

(***************************************************************************)
(* SpecQuery: callers query the advertisers with conditions of their own   *)
(* (getAdvertiser is not cached).                                          *)
(***************************************************************************)
QueryConditions ==
  { EmptyObject,
    [name |-> "Prebid"],
    [name |-> ""],
    [id |-> "A2"],
    [name |-> "Prebid", id |-> "A1"],
    [name |-> "Acme", id |-> "A2", type |-> "ADVERTISER"],
    [name |-> "Nobody", type |-> "ADVERTISER"],
    [partner |-> "Prebid"],
    [name |-> "Acme", partner |-> "Prebid"],
    [name |-> "", id |-> "A1", partner |-> "Prebid", lastModifiedDateTime |-> Undefined] }

\* dfp.getAdvertiser(conditions) up to executeAPIFunction
getAdvertiser(t, conditions) ==
  /\ lk[t].pc = "idle"
  /\ TotalStarts < MaxResolutions
  /\ lk' = [lk EXCEPT ![t] =
              [IdleLookup EXCEPT !.pc = "remote", !.ns = "advertiser", !.calls = 1,
                                 !.conditions = conditions,
                                 !.query = StatementOf("advertiser", conditions)]]
  /\ starts' = [starts EXCEPT !["advertiser"] = @ + 1]
  /\ remoteCalls' = [remoteCalls EXCEPT !["advertiser"] = @ + 1]
  /\ UNCHANGED <<store, resolved, job, heap>>

NextQuery ==
  \/ \E t \in Tasks, c \in QueryConditions : getAdvertiser(t, c) /\ UNCHANGED runVars
  \/ \E t \in Tasks : RemoteReturn(t) /\ UNCHANGED runVars
  \/ \E t \in Tasks : FinishLookup(t) /\ UNCHANGED runVars

SpecQuery == InitResolver /\ [][NextQuery]_vars

(***************************************************************************)
(* The domain objects handed to prepare...().                              *)
(***************************************************************************)
\* formatter.formatLineItem: note that it does not copy orderName
formatLineItem(lineItem) ==
  LET base == [name |-> "PREBID_" \o lineItem.cpm,
               lineItemType |-> "PRICE_PRIORITY",
               targeting |-> [targetedAdUnits |-> << [adUnitId |-> "21661848134",
                                                     includeDescendants |-> TRUE] >>,
                              children |-> <<>>]]
      withId == IF "orderId" \in DOMAIN lineItem
                  THEN SetProp(base, "orderId", lineItem.orderId) ELSE base
      withKV == IF "customCriteriaKVPairs" \in DOMAIN lineItem
                  THEN SetProp(withId, "customCriteriaKVPairs", lineItem.customCriteriaKVPairs)
                  ELSE withId
      withDate == IF "date" \in DOMAIN lineItem
                    THEN SetProp(withKV, "date", lineItem.date) ELSE withKV
  IN IF "adUnitName" \in DOMAIN lineItem
       THEN SetProp(withDate, "adUnitName", lineItem.adUnitName) ELSE withDate

\* the line item getCombinations builds for price point cpm
Combination(cpm) ==
  formatLineItem([cpm |-> cpm, orderName |-> "yo_first_order",
                  customCriteriaKVPairs |-> << <<"hb_pb", cpm>> >>,
                  date |-> "10-26-2017, 15:00:00", adUnitName |-> "TV2no"])

\* formatter.formatCreative / formatter.formatOrder
formatCreative(params) ==
  LET c == [name |-> params.customName \o "_" \o params.advertiser \o "_" \o params.size,
            advertiserId |-> "null"]
  IN IF params.advertiser = Undefined THEN c ELSE SetProp(c, "partner", params.advertiser)

formatOrder(name, traffickerId, partner) ==
  [name |-> name, status |-> "DRAFT", advertiserId |-> "null",
   traffickerId |-> traffickerId, partner |-> partner]

\* a line item that carries all its named references
FullLineItem == SetProp(Combination("0.50"), "orderName", "yo_first_order")

\* a line item whose targeting already holds two ad units and a criterion
TargetedLineItem ==
  [SetProp(FullLineItem, "customCriteriaKVPairs", << <<"hb_size", "0.50">>, <<"hb_pb", "1.00">> >>)
     EXCEPT !.targeting =
       [targetedAdUnits |-> << [adUnitId |-> "111", includeDescendants |-> FALSE],
                               [adUnitId |-> "222", includeDescendants |-> TRUE] >>,
        children |-> << [type |-> "CustomCriteria", keyId |-> "K9",
                         valueIds |-> <<"V9">>, operator |-> "IS_NOT"] >>]]

LineItemInputs ==
  { FullLineItem,
    Combination("0.50"),
    DeleteProp(FullLineItem, "adUnitName"),
    DeleteProp(FullLineItem, "customCriteriaKVPairs"),
    SetProp(FullLineItem, "customCriteriaKVPairs", <<>>),
    TargetedLineItem,
    SetProp(FullLineItem, "customCriteriaKVPairs", << <<"hb_pb", "0.50">>, <<"hb_none", "0.50">> >>),
    SetProp(FullLineItem, "orderName", "no_order") }

PartnerInputs ==
  { formatCreative([size |-> "1x1", advertiser |-> "Prebid", customName |-> "autogen_1"]),
    formatCreative([size |-> "1x1", advertiser |-> Undefined, customName |-> "autogen_1"]),
    formatOrder("Nobody_ros", "244654568", "Nobody") }

(***************************************************************************)
(* The preparation pipelines.                                              *)
(***************************************************************************)
DigitsToNat(s) ==
  LET d(c) == CASE c = "0" -> 0 [] c = "1" -> 1 [] c = "2" -> 2 [] c = "3" -> 3
                [] c = "4" -> 4 [] c = "5" -> 5 [] c = "6" -> 6 [] c = "7" -> 7
                [] c = "8" -> 8 [] c = "9" -> 9
      v[i \in 0..Len(s)] == IF i = 0 THEN 0 ELSE 10 * v[i - 1] + d(SubSeq(s, i, i))
  IN v[Len(s)]

\* moment(date, 'MM-DD-YYYY, H:mm:ss') read back through year(), month() + 1, ...
StartDateTime(date) ==
  IF date = Undefined
    THEN [date |-> [year |-> "NaN", month |-> "NaN", day |-> "NaN"],
          hour |-> "NaN", minute |-> "NaN", second |-> "0", timeZoneID |-> "Europe/Oslo"]
    ELSE [date |-> [year |-> ToString(DigitsToNat(SubSeq(date, 7, 10))),
                    month |-> ToString(DigitsToNat(SubSeq(date, 1, 2))),
                    day |-> ToString(DigitsToNat(SubSeq(date, 4, 5)))],
          hour |-> ToString(DigitsToNat(SubSeq(date, 13, 14))),
          minute |-> ToString(DigitsToNat(SubSeq(date, 16, 17))),
          second |-> "0", timeZoneID |-> "Europe/Oslo"]

\* _.pairs(criteria): the [key, value] pairs in the mapping's order, [] for undefined
Pairs(obj) == IF "customCriteriaKVPairs" \in DOMAIN obj THEN obj.customCriteriaKVPairs ELSE <<>>

\* _lookupKeyInPair: the key name handed to lookupCriteriaKey
KeyNameOfPair(pair) == pair[1]

\* _lookupValueInPair on [keyId, value]: the arguments of lookupCriteriaValues
ValueLookupOfPairUnscoped(pair) == [value |-> pair[2], keyId |-> "K1"]
ValueLookupOfPair(pair) == [value |-> pair[2], keyId |-> pair[1]]

_convertPairToObject(pair) == [keyId |-> pair[1], valueIds |-> pair[2]]

\* the child addCriteria pushes for one resolved pair
CriteriaChild(condition) ==
  [type |-> "CustomCriteria", keyId |-> condition.keyId,
   valueIds |-> condition.valueIds, operator |-> "IS"]

\* the .then chain of prepareLineItem
LINE_ITEM_STEPS_AdUnitFirst ==
  << "replaceStartDate", "replaceAdUnitName", "replaceOrderName", "addCriteria" >>
LINE_ITEM_STEPS ==
  << "replaceStartDate", "replaceOrderName", "replaceAdUnitName", "addCriteria" >>

\* the step .then chains after `step`; the promise resolves after the last one
StepAfter(step) ==
  LET i == CHOOSE k \in 1..Len(LINE_ITEM_STEPS) : LINE_ITEM_STEPS[k] = step
  IN IF i = Len(LINE_ITEM_STEPS) THEN "resolved" ELSE LINE_ITEM_STEPS[i + 1]

\* dfp.prepareLineItem(lineItem) / prepareCreative(creative) / prepareOrder(order)
prepare(t, kind, obj) ==
  /\ job[t].pc = "idle"
  /\ lk[t].pc = "idle"
  /\ heap' = [heap EXCEPT ![t] = Alloc(EmptyHeap, "caller", obj)]
  /\ job' = [job EXCEPT ![t] =
               [IdleJob EXCEPT !.pc = IF kind = "lineItem" THEN LINE_ITEM_STEPS[1]
                                      ELSE "replacePartnerName",
                               !.kind = kind, !.cur = "caller", !.orig = obj]]
  /\ UNCHANGED lookupVars

replaceStartDate(t) ==
  /\ job[t].pc = "replaceStartDate"
  /\ LET c == cloneDeep(heap[t], job[t].cur, "c1")
         lineItem == c.heap[c.ref]
     IN /\ heap' = [heap EXCEPT ![t] =
                      [c.heap EXCEPT ![c.ref] =
                         DeleteProp(SetProp(lineItem, "startDateTime",
                                            StartDateTime(Prop(lineItem, "date"))), "date")]]
        /\ job' = [job EXCEPT ![t].pc = StepAfter("replaceStartDate"), ![t].cur = c.ref]
  /\ UNCHANGED lookupVars

\* replaceOrderName up to getOrder's orderStore.getAsync
replaceOrderName(t) ==
  /\ job[t].pc = "replaceOrderName"
  /\ LET c == cloneDeep(heap[t], job[t].cur, "c2")
     IN /\ heap' = [heap EXCEPT ![t] = c.heap]
        /\ job' = [job EXCEPT ![t].pc = "getOrder", ![t].cur = c.ref]
        /\ lk' = [lk EXCEPT ![t] = NewLookup("order", Prop(c.heap[c.ref], "orderName"), None)]
        /\ starts' = [starts EXCEPT !["order"] = @ + 1]
  /\ UNCHANGED <<store, remoteCalls, resolved>>

\* the .then of replaceOrderName
OrderNameReplaced(t) ==
  /\ job[t].pc = "getOrder"
  /\ lk[t].pc = "done"
  /\ heap' = [heap EXCEPT ![t][job[t].cur] =
                DeleteProp(SetProp(@, "orderId", lk[t].ret), "orderName")]
  /\ job' = [job EXCEPT ![t].pc = StepAfter("replaceOrderName")]
  /\ lk' = [lk EXCEPT ![t] = IdleLookup]
  /\ UNCHANGED <<store, remoteCalls, resolved, starts>>

\* replaceAdUnitName up to getAdUnit's adUnitStore.getAsync
replaceAdUnitName(t) ==
  /\ job[t].pc = "replaceAdUnitName"
  /\ LET c == cloneDeep(heap[t], job[t].cur, "c3")
     IN /\ heap' = [heap EXCEPT ![t] = c.heap]
        /\ job' = [job EXCEPT ![t].pc = "getAdUnit", ![t].cur = c.ref]
        /\ lk' = [lk EXCEPT ![t] = NewLookup("adUnit", Prop(c.heap[c.ref], "adUnitName"), None)]
        /\ starts' = [starts EXCEPT !["adUnit"] = @ + 1]
  /\ UNCHANGED <<store, remoteCalls, resolved>>

\* the .then of replaceAdUnitName
AdUnitNameReplaced(t) ==
  /\ job[t].pc = "getAdUnit"
  /\ lk[t].pc = "done"
  /\ LET h == heap[t]
         ref == job[t].cur
     IN IF "targeting" \in DOMAIN h[ref]
          THEN /\ heap' = [heap EXCEPT ![t] =
                             [h EXCEPT ![h[ref].targeting].targetedAdUnits =
                                         << [adUnitId |-> lk[t].ret, includeDescendants |-> TRUE] >>,
                                       ![ref] = DeleteProp(@, "adUnitName")]]
               /\ job' = [job EXCEPT ![t].pc = StepAfter("replaceAdUnitName")]
          ELSE /\ job' = [job EXCEPT ![t].pc = "rejected",
                                     ![t].err = "Cannot read property of undefined"]
               /\ UNCHANGED heap
  /\ lk' = [lk EXCEPT ![t] = IdleLookup]
  /\ UNCHANGED <<store, remoteCalls, resolved, starts>>

\* the CONCURRENCY option of getCriteria's two lookup maps
GET_CRITERIA_CONCURRENCY == 1

\* the lookup frames a getCriteria call of task t can have in flight: its own and
\* a second one
CallSlots(t) == {t, -t} \cap DOMAIN lk

Min(a, b) == IF a <= b THEN a ELSE b

\* .map(mapper, CONCURRENCY) on n pairs: the frames of the mapper invocations it
\* starts at once
MapFillUnlimited(t, n) ==
  {s \in CallSlots(t) : n >= 2 \/ s = t}
MapFill(t, n) ==
  {s \in CallSlots(t) : Min(GET_CRITERIA_CONCURRENCY, n) >= 2 \/ s = t}

\* the ways a map hands distinct pairs to the frames it starts at once
FirstPairs(t, n) ==
  {f \in [MapFill(t, n) -> 1..n] : \A r, s \in DOMAIN f : r # s => f[r] # f[s]}

\* addCriteria up to getCriteria's first lookupCriteriaKey: the first .map starts
\* one pair (concurrency 1); with no pair getCriteria resolves with []
addCriteria(t) ==
  /\ job[t].pc = "addCriteria"
  /\ LET c == cloneDeep(heap[t], job[t].cur, "c4")
         pairs == Pairs(c.heap[c.ref])
         n == Len(pairs)
     IN /\ heap' = [heap EXCEPT ![t] = c.heap]
        /\ IF n = 0
             THEN /\ job' = [job EXCEPT ![t].pc = "getCriteria", ![t].cur = c.ref,
                                        ![t].pairs = pairs, ![t].criteria = <<>>]
                  /\ UNCHANGED <<lk, starts>>
             ELSE \E f \in FirstPairs(t, n) :
                    /\ job' = [job EXCEPT ![t].pc = "lookupKeys", ![t].cur = c.ref,
                                          ![t].pairs = pairs,
                                          ![t].keyIds = [j \in 1..n |-> None],
                                          ![t].valueIds = [j \in 1..n |-> <<>>],
                                          ![t].todo = (1..n) \ {f[s] : s \in DOMAIN f},
                                          ![t].at = f]
                    /\ lk' = [s \in DOMAIN lk |->
                                IF s \in DOMAIN f
                                  THEN NewLookup("criteriaKey", KeyNameOfPair(pairs[f[s]]), None)
                                  ELSE lk[s]]
                    /\ starts' = [starts EXCEPT !["criteriaKey"] = @ + Cardinality(DOMAIN f)]
  /\ UNCHANGED <<store, remoteCalls, resolved>>

\* the function at without the frame s
Release(at, s) == [r \in DOMAIN at \ {s} |-> at[r]]

\* a lookupCriteriaKey of the first .map resolved (frame s): the next pair's key
\* is looked up, or, all keys known, the second .map starts one
\* lookupCriteriaValues
KeyLookedUp(t, s) ==
  /\ job[t].pc = "lookupKeys"
  /\ s \in DOMAIN job[t].at
  /\ lk[s].pc = "done"
  /\ LET j == job[t]
         n == Len(j.pairs)
         keyIds == [j.keyIds EXCEPT ![j.at[s]] = lk[s].ret]
     IN IF j.todo # {}
          THEN \E i \in j.todo :
                 /\ job' = [job EXCEPT ![t].keyIds = keyIds, ![t].todo = @ \ {i}, ![t].at[s] = i]
                 /\ lk' = [lk EXCEPT ![s] = NewLookup("criteriaKey", KeyNameOfPair(j.pairs[i]), None)]
                 /\ starts' = [starts EXCEPT !["criteriaKey"] = @ + 1]
          ELSE IF DOMAIN j.at # {s}
            THEN /\ job' = [job EXCEPT ![t].keyIds = keyIds, ![t].at = Release(@, s)]
                 /\ lk' = [lk EXCEPT ![s] = IdleLookup]
                 /\ UNCHANGED starts
          ELSE \E f \in FirstPairs(t, n) :
                 /\ job' = [job EXCEPT ![t].pc = "lookupValues", ![t].keyIds = keyIds,
                                       ![t].todo = (1..n) \ {f[r] : r \in DOMAIN f},
                                       ![t].at = f]
                 /\ lk' = [r \in DOMAIN lk |->
                             IF r \in DOMAIN f
                               THEN LET a == ValueLookupOfPair(<<keyIds[f[r]], j.pairs[f[r]][2]>>)
                                    IN NewLookup("criteriaValue", a.value, a.keyId)
                               ELSE IF r = s THEN IdleLookup ELSE lk[r]]
                 /\ starts' = [starts EXCEPT !["criteriaValue"] = @ + Cardinality(DOMAIN f)]
  /\ UNCHANGED <<store, remoteCalls, resolved, heap>>

\* a lookupCriteriaValues of the second .map resolved (frame s): the next pair's
\* value is looked up, or, all values known, the third .map converts the pairs
ValueLookedUp(t, s) ==
  /\ job[t].pc = "lookupValues"
  /\ s \in DOMAIN job[t].at
  /\ lk[s].pc = "done"
  /\ LET j == job[t]
         n == Len(j.pairs)
         valueIds == [j.valueIds EXCEPT ![j.at[s]] = lk[s].ret]
     IN IF j.todo # {}
          THEN \E i \in j.todo :
                 LET a == ValueLookupOfPair(<<j.keyIds[i], j.pairs[i][2]>>) IN
                 /\ job' = [job EXCEPT ![t].valueIds = valueIds, ![t].todo = @ \ {i}, ![t].at[s] = i]
                 /\ lk' = [lk EXCEPT ![s] = NewLookup("criteriaValue", a.value, a.keyId)]
                 /\ starts' = [starts EXCEPT !["criteriaValue"] = @ + 1]
          ELSE IF DOMAIN j.at # {s}
            THEN /\ job' = [job EXCEPT ![t].valueIds = valueIds, ![t].at = Release(@, s)]
                 /\ lk' = [lk EXCEPT ![s] = IdleLookup]
                 /\ UNCHANGED starts
          ELSE /\ job' = [job EXCEPT ![t].pc = "getCriteria", ![t].valueIds = valueIds,
                                     ![t].at = Release(@, s),
                                     ![t].criteria =
                                       [i \in 1..n |-> _convertPairToObject(<<j.keyIds[i], valueIds[i]>>)]]
               /\ lk' = [lk EXCEPT ![s] = IdleLookup]
               /\ UNCHANGED starts
  /\ UNCHANGED <<store, remoteCalls, resolved, heap>>

\* the forEach of addCriteria pushes one child per resolved pair
PushFirstOnly(children, criteria, n) ==
  IF n = 0 THEN children ELSE Append(children, CriteriaChild(criteria[1]))

RECURSIVE PushAll(_, _, _)
PushAll(children, criteria, n) ==
  IF n = 0 THEN children
  ELSE Append(PushAll(children, criteria, n - 1), CriteriaChild(criteria[n]))

\* the .then of addCriteria: prepareLineItem resolves with the line item
CriteriaAdded(t) ==
  /\ job[t].pc = "getCriteria"
  /\ LET h == heap[t]
         ref == job[t].cur
     IN IF "targeting" \in DOMAIN h[ref] \/ job[t].criteria = <<>>
          THEN /\ heap' = [heap EXCEPT ![t] =
                             IF job[t].criteria = <<>>
                               THEN [h EXCEPT ![ref] = DeleteProp(@, "customCriteriaKVPairs")]
                               ELSE [h EXCEPT ![h[ref].targeting].children =
                                                PushAll(@, job[t].criteria, Len(job[t].criteria)),
                                              ![ref] = DeleteProp(@, "customCriteriaKVPairs")]]
               /\ job' = [job EXCEPT ![t].pc = StepAfter("addCriteria")]
          ELSE /\ job' = [job EXCEPT ![t].pc = "rejected",
                                     ![t].err = "Cannot read property of undefined"]
               /\ UNCHANGED heap
  /\ UNCHANGED lookupVars

\* the frame of the getAdvertiser call replacePartnerName makes: no store is
\* read, executeAPIFunction is issued at once
AdvertiserLookupMemoized(name) ==
  LET known == resolved[<<"advertiser", name, None>>] IN
  IF known # None
    THEN [NewLookup("advertiser", name, None) EXCEPT !.pc = "done", !.id = known, !.ret = known]
    ELSE [NewLookup("advertiser", name, None)
            EXCEPT !.pc = "remote", !.calls = 1,
                   !.conditions = LookupConditions("advertiser", name, None),
                   !.query = LookupQuery("advertiser", name, None)]
AdvertiserLookup(name) ==
  [NewLookup("advertiser", name, None)
     EXCEPT !.pc = "remote", !.calls = 1,
            !.conditions = LookupConditions("advertiser", name, None),
            !.query = LookupQuery("advertiser", name, None)]

\* replacePartnerName up to getAdvertiser's executeAPIFunction
replacePartnerName(t) ==
  /\ job[t].pc = "replacePartnerName"
  /\ LET c == cloneDeep(heap[t], job[t].cur, "c1")
         call == AdvertiserLookup(Prop(c.heap[c.ref], "partner"))
     IN /\ heap' = [heap EXCEPT ![t] = c.heap]
        /\ job' = [job EXCEPT ![t].pc = "getAdvertiser", ![t].cur = c.ref]
        /\ lk' = [lk EXCEPT ![t] = call]
        /\ starts' = [starts EXCEPT !["advertiser"] = @ + 1]
        /\ remoteCalls' = [remoteCalls EXCEPT !["advertiser"] = @ + call.calls]
  /\ UNCHANGED <<store, resolved>>

\* the .then of replacePartnerName: prepareCreative / prepareOrder resolves
PartnerNameReplaced(t) ==
  /\ job[t].pc = "getAdvertiser"
  /\ lk[t].pc = "done"
  /\ heap' = [heap EXCEPT ![t][job[t].cur] =
                DeleteProp(SetProp(@, "advertiserId", lk[t].ret), "partner")]
  /\ job' = [job EXCEPT ![t].pc = "resolved"]
  /\ lk' = [lk EXCEPT ![t] = IdleLookup]
  /\ UNCHANGED <<store, remoteCalls, resolved, starts>>

AwaitingLookup == {"getOrder", "getAdUnit", "lookupKeys", "lookupValues", "getAdvertiser"}

\* the lookup a step waits for rejected: no later step runs, prepare...() rejects
StepRejected(t) ==
  /\ job[t].pc \in AwaitingLookup
  /\ \E s \in CallSlots(t) :
       /\ lk[s].pc = "failed"
       /\ job' = [job EXCEPT ![t].pc = "rejected", ![t].err = lk[s].err]
       /\ lk' = [lk EXCEPT ![s] = IdleLookup]
  /\ UNCHANGED <<store, remoteCalls, resolved, starts, heap>>

(***************************************************************************)
(* SpecPrepare: callers prepare line items, creatives and orders, one per  *)
(* task, in any interleaving.                                              *)
(***************************************************************************)
\* every task has its own lookup frame and a second one for getCriteria
LookupFrames == Tasks \cup {-t : t \in Tasks}

InitPrepare == InitLookups(LookupFrames) /\ InitJobs(Tasks) /\ NoScript

\* prepare...() calls made so far
PreparesStarted == Cardinality({t \in DOMAIN job : job[t].pc # "idle"})

\* a caller of the library prepares a line item or a creative / an order
CallPrepare(t, kind, obj) ==
  /\ PreparesStarted < MaxPrepares
  /\ prepare(t, kind, obj)
  /\ UNCHANGED runVars

NextPrepare ==
  \/ \E t \in Tasks, obj \in LineItemInputs : CallPrepare(t, "lineItem", obj)
  \/ \E t \in Tasks, obj \in PartnerInputs : CallPrepare(t, "partner", obj)
  \/ \E t \in Tasks : replaceStartDate(t) /\ UNCHANGED runVars
  \/ \E t \in Tasks : replaceOrderName(t) /\ UNCHANGED runVars
  \/ \E t \in Tasks : OrderNameReplaced(t) /\ UNCHANGED runVars
  \/ \E t \in Tasks : replaceAdUnitName(t) /\ UNCHANGED runVars
  \/ \E t \in Tasks : AdUnitNameReplaced(t) /\ UNCHANGED runVars
  \/ \E t \in Tasks : addCriteria(t) /\ UNCHANGED runVars
  \/ \E t \in Tasks, s \in LookupFrames : KeyLookedUp(t, s) /\ UNCHANGED runVars
  \/ \E t \in Tasks, s \in LookupFrames : ValueLookedUp(t, s) /\ UNCHANGED runVars
  \/ \E t \in Tasks : CriteriaAdded(t) /\ UNCHANGED runVars
  \/ \E t \in Tasks : replacePartnerName(t) /\ UNCHANGED runVars
  \/ \E t \in Tasks : PartnerNameReplaced(t) /\ UNCHANGED runVars
  \/ \E t \in Tasks : StepRejected(t) /\ UNCHANGED runVars
  \/ \E s \in LookupFrames : CacheGet(s) /\ UNCHANGED runVars
  \/ \E s \in LookupFrames : RemoteReturn(s) /\ UNCHANGED runVars
  \/ \E s \in LookupFrames : PutReturn(s) /\ UNCHANGED runVars

SpecPrepare == InitPrepare /\ [][NextPrepare]_vars

(***************************************************************************)
(* The scripts: a collection is mapped with bounded concurrency, then the  *)
(* results are submitted.                                                  *)
(***************************************************************************)
ScriptNames == {"create-line-items", "create-creatives", "create-associations", "delete-associations"}
PrepareScripts == {"create-line-items", "create-creatives"}
AssociationScripts == {"create-associations", "delete-associations"}

LINE_ITEM_CONCURRENCY == 3
CREATIVE_CONCURRENCY == 1
ASSOCIATION_CONCURRENCY == 1
CREATE_BATCH_SIZE == 100
DELETE_BATCH_SIZE == 50
\* the creative ids hard-coded in delete-associations
DELETE_CREATIVES == 25

\* the concurrency option of the script's .map; .each runs one at a time
CONCURRENCY(sc) ==
  CASE sc = "create-line-items" -> LINE_ITEM_CONCURRENCY
    [] sc = "create-creatives" -> CREATIVE_CONCURRENCY
    [] sc = "create-associations" -> ASSOCIATION_CONCURRENCY
    [] sc = "delete-associations" -> 1

\* the sizes of create-creatives
sizes == << "_1", "_2", "_3", "_4", "_5" >>

\* getCombinations of create-line-items and of create-creatives
LineItemCombinations(start, end) ==
  LET pricePoints == generatePricePoints(start, end)
  IN [i \in 1..Len(pricePoints) |-> Combination(pricePoints[i])]

CreativeCombinations(advertiser) ==
  [i \in 1..Len(sizes) |->
     formatCreative([size |-> "1x1", advertiser |-> advertiser, customName |-> "autogen" \o sizes[i]])]

\* prepareAssociations then _.flatten: one association per line item and creative,
\* line item by line item
FlatAssociations(nLineItems, nCreatives) ==
  [k \in 1..(nLineItems * nCreatives) |->
     [lineItemId |-> ((k - 1) \div nCreatives) + 1, creativeId |-> ((k - 1) % nCreatives) + 1]]

\* _.chunk(array, size)
RECURSIVE chunkDroppingRemainder(_, _)
chunkDroppingRemainder(array, size) ==
  IF Len(array) < size THEN <<>>
  ELSE << SubSeq(array, 1, size) >> \o chunkDroppingRemainder(SubSeq(array, size + 1, Len(array)), size)

RECURSIVE chunk(_, _)
chunk(array, size) ==
  IF Len(array) = 0 THEN <<>>
  ELSE IF Len(array) <= size THEN << array >>
  ELSE << SubSeq(array, 1, size) >> \o chunk(SubSeq(array, size + 1, Len(array)), size)

\* splitBatches of create-associations (100) and of delete-associations (50)
splitBatchesReversed(sc, lineItems) ==
  chunk([i \in 1..Len(lineItems) |-> lineItems[Len(lineItems) + 1 - i]],
        IF sc = "create-associations" THEN CREATE_BATCH_SIZE ELSE DELETE_BATCH_SIZE)
splitBatches(sc, lineItems) ==
  chunk(lineItems, IF sc = "create-associations" THEN CREATE_BATCH_SIZE ELSE DELETE_BATCH_SIZE)

InFlight == Cardinality({i \in DOMAIN unit : unit[i] = "running"})

\* a mapper is started only while fewer than `limit` are in flight
SlotFreeOffByOne(inFlight, limit) == inFlight <= limit
SlotFree(inFlight, limit) == inFlight < limit

\* the promise of .map / .each: rejected by the first rejection, fulfilled when
\* every element is fulfilled
MapOutcomeSettleAll(u) ==
  IF \A i \in DOMAIN u : u[i] \in {"fulfilled", "rejected"} THEN "fulfilled" ELSE "pending"
MapOutcome(u) ==
  IF \E i \in DOMAIN u : u[i] = "rejected" THEN "rejected"
  ELSE IF \A i \in DOMAIN u : u[i] = "fulfilled" THEN "fulfilled"
  ELSE "pending"

\* handleError of create-line-items ticks the progress bar
ErrorTicks(sc) == IF sc = "create-line-items" THEN 1 ELSE 0

\* values of --order: the name of an order, or the id of one
OrderArguments == {"yo_first_order", "O1"}

InitScripts ==
  /\ script \in ScriptNames
  /\ store = [ns \in Namespaces |-> EmptyStore]
  /\ remoteCalls = [s \in Services |-> 0]
  /\ resolved = [r \in Requests |-> None]
  /\ starts = [s \in Services |-> 0]
  /\ argv \in
       CASE script = "create-line-items" ->
              [order : OrderArguments, start : 0..MaxCpm, end : 0..MaxCpm]
         [] script = "create-creatives" -> [advertiser : {"Prebid", "Nobody", Undefined}]
         [] OTHER -> {EmptyObject}
  /\ items =
       CASE script = "create-line-items" -> LineItemCombinations(argv.start, argv.end)
         [] script = "create-creatives" -> CreativeCombinations(argv.advertiser)
         [] OTHER -> <<>>
  /\ batches = <<>>
  /\ unit = [i \in 1..Len(items) |-> "pending"]
  /\ out = [i \in 1..Len(items) |-> EmptyObject]
  /\ settled = <<>>
  /\ lk = [i \in 1..Len(items) |-> IdleLookup]
  /\ job = [i \in 1..Len(items) |-> IdleJob]
  /\ heap = [i \in 1..Len(items) |-> EmptyHeap]
  /\ chain = IF script \in PrepareScripts THEN "mapping" ELSE "getLineItems"
  /\ submitted = <<>>
  /\ ticks = 0

\* .map(prepareLineItem, CONCURRENCY) / .map(prepareCreative, CONCURRENCY) calls the
\* mapper on an element
MapStart(i) ==
  /\ script \in PrepareScripts
  /\ chain = "mapping"
  /\ MapOutcome(unit) = "pending"
  /\ unit[i] = "pending"
  /\ SlotFree(InFlight, CONCURRENCY(script))
  /\ prepare(i, IF script = "create-line-items" THEN "lineItem" ELSE "partner", items[i])
  /\ unit' = [unit EXCEPT ![i] = "running"]
  /\ UNCHANGED <<settled, argv, script, items, batches, out, chain, submitted, ticks>>

\* dfp.createLineItems / createCreatives / createAssociations: one
\* executeAPIFunction call with the whole input
SubmitTwice(requests, input) == Append(Append(requests, input), input)
Submit(requests, input) == Append(requests, input)

\* what the chain does once the element settled: on the map's rejection handleError,
\* on its fulfilment createLineItems / createCreatives with all the results
ChainAfter(u, o, tick) ==
  IF chain = "mapping" /\ MapOutcome(u) = "rejected"
    THEN /\ chain' = "failed"
         /\ ticks' = ticks + tick + ErrorTicks(script)
         /\ UNCHANGED submitted
  ELSE IF chain = "mapping" /\ MapOutcome(u) = "fulfilled"
    THEN /\ chain' = IF script \in PrepareScripts THEN "creating" ELSE "succeeded"
         /\ ticks' = ticks + tick
         /\ submitted' = IF script \in PrepareScripts THEN Submit(submitted, o) ELSE submitted
  ELSE /\ ticks' = ticks + tick
       /\ UNCHANGED <<chain, submitted>>

\* .map keeps the value of each mapper at the index of its element
KeepResultInSettlingOrder(results, i, value) ==
  LET free == {j \in DOMAIN results : results[j] = EmptyObject}
      first == CHOOSE j \in free : \A k \in free : j <= k
  IN [results EXCEPT ![first] = value]
KeepResult(results, i, value) == [results EXCEPT ![i] = value]

\* dfp.prepare...(element) resolved: .tap(advanceProgress), the element is fulfilled
UnitFulfilled(i) ==
  /\ script \in PrepareScripts
  /\ unit[i] = "running"
  /\ job[i].pc = "resolved"
  /\ unit' = [unit EXCEPT ![i] = "fulfilled"]
  /\ out' = KeepResult(out, i, Deref(heap[i], job[i].cur))
  /\ settled' = Append(settled, i)
  /\ ChainAfter(unit', out', 1)
  /\ UNCHANGED <<argv, script, items, batches, lookupVars, pipeVars>>

\* dfp.prepare...(element) rejected
UnitRejected(i) ==
  /\ script \in PrepareScripts
  /\ unit[i] = "running"
  /\ job[i].pc = "rejected"
  /\ unit' = [unit EXCEPT ![i] = "rejected"]
  /\ settled' = Append(settled, i)
  /\ ChainAfter(unit', out, 0)
  /\ UNCHANGED <<argv, script, items, batches, out, lookupVars, pipeVars>>

\* a map over no element is fulfilled at once
EmptyMap ==
  /\ chain = "mapping"
  /\ DOMAIN unit = {}
  /\ ChainAfter(unit, out, 0)
  /\ UNCHANGED <<settled, argv, script, items, batches, unit, out, lookupVars, pipeVars>>

\* createLineItems / createCreatives settled: logSuccess or handleError
CreateReturn ==
  /\ chain = "creating"
  /\ \E ok \in BOOLEAN :
       IF ok THEN chain' = "succeeded" /\ ticks' = ticks + 1
       ELSE chain' = "failed" /\ ticks' = ticks + ErrorTicks(script)
  /\ UNCHANGED <<settled, argv, script, items, batches, unit, out, submitted, lookupVars, pipeVars>>

\* getLineItems settled: no line item (extractResults throws) or a failed call ends
\* in handleError; else prepareAssociations, _.flatten and splitBatches run
LineItemsFetched ==
  /\ chain = "getLineItems"
  /\ \E nLineItems \in 0..MaxLineItems, nCreatives \in {1, DELETE_CREATIVES}, transportOk \in BOOLEAN :
       /\ script = "delete-associations" => nCreatives = DELETE_CREATIVES
       /\ IF transportOk /\ nLineItems > 0
            THEN /\ items' = FlatAssociations(nLineItems, nCreatives)
                 /\ batches' = splitBatches(script, items')
                 /\ unit' = [b \in 1..Len(batches') |-> "pending"]
                 /\ out' = [b \in 1..Len(batches') |-> EmptyObject]
                 /\ chain' = "mapping"
            ELSE /\ chain' = "failed"
                 /\ UNCHANGED <<items, batches, unit, out>>
  /\ UNCHANGED <<settled, argv, script, submitted, ticks, lookupVars, pipeVars>>

\* .map(createAssociations, CONCURRENCY) / .each(deleteAssociations) submits a batch;
\* .each takes the batches in order, each after the previous one settled
BatchStart(b) ==
  /\ script \in AssociationScripts
  /\ chain = "mapping"
  /\ MapOutcome(unit) = "pending"
  /\ unit[b] = "pending"
  /\ SlotFree(InFlight, CONCURRENCY(script))
  /\ script = "delete-associations" => \A c \in 1..(b - 1) : unit[c] = "fulfilled"
  /\ unit' = [unit EXCEPT ![b] = "running"]
  /\ submitted' = Submit(submitted, batches[b])
  /\ UNCHANGED <<settled, argv, script, items, batches, out, chain, ticks, lookupVars, pipeVars>>

\* .tap(advanceProgress): the handler runs when the promise is fulfilled and is
\* skipped when it is rejected
TapTicksWhateverOutcome(fulfilled) == 1
TapTicks(fulfilled) == IF fulfilled THEN 1 ELSE 0

\* the submission of a batch settled: .tap(advanceProgress) on success
BatchReturn(b) ==
  /\ script \in AssociationScripts
  /\ unit[b] = "running"
  /\ \E ok \in BOOLEAN :
       /\ unit' = [unit EXCEPT ![b] = IF ok THEN "fulfilled" ELSE "rejected"]
       /\ ChainAfter(unit', out, TapTicks(ok))
  /\ settled' = Append(settled, b)
  /\ UNCHANGED <<argv, script, items, batches, out, lookupVars, pipeVars>>

\* getCombinations' line items carry no orderName (formatLineItem leaves it out),
\* so getOrder asks for the order named undefined and its putAsync(undefined, id)
\* fails: a run of create-line-items never gets past replaceOrderName. The later
\* steps of prepareLineItem are the actions of SpecPrepare.
NextScripts ==
  \/ \E i \in DOMAIN unit : MapStart(i)
  \/ \E i \in DOMAIN unit : UnitFulfilled(i)
  \/ \E i \in DOMAIN unit : UnitRejected(i)
  \/ EmptyMap
  \/ CreateReturn
  \/ LineItemsFetched
  \/ \E b \in DOMAIN unit : BatchStart(b)
  \/ \E b \in DOMAIN unit : BatchReturn(b)
  \/ \E t \in DOMAIN job : replaceStartDate(t) /\ UNCHANGED runVars
  \/ \E t \in DOMAIN job : replaceOrderName(t) /\ UNCHANGED runVars
  \/ \E t \in DOMAIN job : replacePartnerName(t) /\ UNCHANGED runVars
  \/ \E t \in DOMAIN job : PartnerNameReplaced(t) /\ UNCHANGED runVars
  \/ \E t \in DOMAIN job : StepRejected(t) /\ UNCHANGED runVars
  \/ \E t \in DOMAIN lk : CacheGet(t) /\ UNCHANGED runVars
  \/ \E t \in DOMAIN lk : RemoteReturn(t) /\ UNCHANGED runVars
  \/ \E t \in DOMAIN lk : PutReturn(t) /\ UNCHANGED runVars

SpecScripts == InitScripts /\ [][NextScripts]_vars

\* every callback the event loop holds is run in the end
SpecScriptsFair == SpecScripts /\ WF_vars(NextScripts)

(***************************************************************************)
(* Claims about the cached lookups (checked under SpecResolver).           *)
(***************************************************************************)
\* C1: in every cache namespace, a resolution of a name started after an earlier
\* resolution of the same name completed successfully issues no remote call and
\* returns the identifier the earlier one returned.
C1_RepeatResolutionHitsCache ==
  \A t \in Tasks :
    lk[t].prior # None =>
      /\ lk[t].calls = 0
      /\ lk[t].pc = "done" => lk[t].id = lk[t].prior

\* C2: from an empty ad-unit cache, when ad-unit name N has been resolved and is
\* then resolved a second time (the only two ad-unit resolutions), the second
\* returns the same identifier and the ad-unit service was invoked once in total.
C2_AdUnitResolvedTwiceOneRemoteCall ==
  \A t \in Tasks :
    (lk[t].ns = "adUnit" /\ lk[t].prior # None /\ lk[t].pc = "done" /\ starts["adUnit"] = 2) =>
      /\ lk[t].id = lk[t].prior
      /\ remoteCalls["adUnit"] = 1

Mentions(err, field) ==
  \E i \in 1..Len(err) :
    i + Len(field) - 1 <= Len(err) /\ SubSeq(err, i, i + Len(field) - 1) = field

MissingFields(obj) ==
  {f \in {"orderName", "adUnitName"} : ~Truthy(Prop(obj, f))}
  \cup (IF Pairs(obj) = <<>> THEN {"customCriteriaKVPairs"} ELSE {})

\* C7: a line item that lacks orderName, adUnitName or customCriteriaKVPairs (absent
\* or empty) is never prepared to the end, no remote query is issued for a name it
\* lacks, and the error prepareLineItem rejects with names a missing field.
C7_MissingReferenceIsRejected ==
  \A t \in DOMAIN job :
    (job[t].kind = "lineItem" /\ MissingFields(job[t].orig) # {}) =>
      /\ job[t].pc # "resolved"
      /\ (lk[t].pc # "idle" /\ lk[t].name = Undefined) => lk[t].calls = 0
      /\ job[t].pc = "rejected" => \E f \in MissingFields(job[t].orig) : Mentions(job[t].err, f)

\* the identifiers the remote platform holds for a key name, and for a value name
\* under a key id
RemoteKeyId(k) == SelectSeq(RemoteEntities("criteriaKey"), LAMBDA e : e.name = k)[1].id
RemoteValueId(keyId, v) ==
  SelectSeq(RemoteEntities("criteriaValue"),
            LAMBDA e : e.name = v /\ e.customTargetingKeyId = keyId)[1].id

\* C8: getCriteria resolves with one {keyId, valueIds} entry per pair of the
\* mapping, in the order of the pairs: keyId is the identifier of the pair's key
\* name and valueIds holds the one identifier of the pair's value name under
\* that key id.
C8_GetCriteriaResolvesPairsInOrder ==
  \A t \in DOMAIN job :
    (job[t].kind = "lineItem" /\ job[t].pc \in {"getCriteria", "resolved"}) =>
      /\ Len(job[t].criteria) = Len(job[t].pairs)
      /\ \A i \in 1..Len(job[t].pairs) :
           job[t].criteria[i] =
             [keyId |-> RemoteKeyId(job[t].pairs[i][1]),
              valueIds |-> << RemoteValueId(RemoteKeyId(job[t].pairs[i][1]), job[t].pairs[i][2]) >>]

\* the spec's scenario, and a mapping of two pairs whose keys differ
C8_Witness ==
  \E t, u \in DOMAIN job :
    /\ job[t].pc = "getCriteria" /\ job[t].pairs = << <<"hb_pb", "0.50">> >>
    /\ job[t].criteria = << [keyId |-> "K1", valueIds |-> <<"V1">>] >>
    /\ job[u].pc = "getCriteria" /\ job[u].pairs = << <<"hb_size", "0.50">>, <<"hb_pb", "1.00">> >>
    /\ job[u].criteria = << [keyId |-> "K2", valueIds |-> <<"V2">>],
                            [keyId |-> "K1", valueIds |-> <<"V3">>] >>

(***************************************************************************)
(* Bounded concurrency of the scripts' maps.                               *)
(***************************************************************************)
\* C4: in every reachable state the number of invocations that have started
\* and not yet completed is at most the limit: 3 for the preparation of line
\* items, 1 for the preparation of creatives and for the submission of
\* association batches.
C4_InFlightAtMostLimit ==
  /\ script = "create-line-items" => InFlight <= 3
  /\ script = "create-creatives" => InFlight <= 1
  /\ script \in AssociationScripts => InFlight <= 1

\* three line items are being prepared and a fourth waits for a slot
C4_Witness ==
  /\ script = "create-line-items"
  /\ InFlight = 3
  /\ \E i \in DOMAIN unit : unit[i] = "pending"
  /\ \A i \in DOMAIN unit : unit[i] = "running" => job[i].pc # "idle"

(***************************************************************************)
(* splitBatches.                                                           *)
(***************************************************************************)
BatchSizeOf(sc) == IF sc = "create-associations" THEN 100 ELSE 50

CeilDiv(a, b) == (a + b - 1) \div b

\* C5: splitBatches on a list of length L with maximum batch size n returns
\* exactly ceil(L/n) batches; every batch but the last has length n, the last
\* has length between 1 and n, no batch is empty; 250 items with n = 100 give
\* batches of sizes 100, 100, 50.
C5_SplitBatchesSizes ==
  (script \in AssociationScripts /\ items # <<>>) =>
    LET n == BatchSizeOf(script)
        L == Len(items)
    IN /\ Len(batches) = CeilDiv(L, n)
       /\ \A b \in 1..(Len(batches) - 1) : Len(batches[b]) = n
       /\ Len(batches[Len(batches)]) \in 1..n
       /\ \A b \in 1..Len(batches) : batches[b] # <<>>
       /\ (n = 100 /\ L = 250) =>
            [b \in 1..Len(batches) |-> Len(batches[b])] = <<100, 100, 50>>

\* 250 associations were split for create-associations
C5_Witness ==
  /\ script = "create-associations"
  /\ Len(items) = 250
  /\ Len(batches) = 3
  /\ chain = "mapping"

RECURSIVE Concatenation(_)
Concatenation(seqs) ==
  IF seqs = <<>> THEN <<>> ELSE Head(seqs) \o Concatenation(Tail(seqs))

\* C6: concatenating the batches returned by splitBatches, in batch order,
\* reproduces the input list exactly: same elements, same order, nothing
\* dropped and nothing duplicated.
C6_ConcatenationIsInput ==
  (script \in AssociationScripts /\ items # <<>>) => Concatenation(batches) = items

\* several batches, the last one shorter, of distinct associations
C6_Witness ==
  /\ script \in AssociationScripts
  /\ Len(batches) >= 3
  /\ Len(batches[Len(batches)]) < Len(batches[1])
  /\ \A i, j \in 1..Len(items) : i # j => items[i] # items[j]

(***************************************************************************)
(* A failed preparation and its siblings.                                  *)
(***************************************************************************)
RunSettled ==
  /\ chain \in {"succeeded", "failed"}
  /\ \A i \in DOMAIN unit : unit[i] # "running"

IsSubmitted(object) ==
  \E c \in 1..Len(submitted) : \E k \in 1..Len(submitted[c]) : submitted[c][k] = object

\* C10: when the preparation of one object fails, the siblings of the same
\* run are unaffected: every other object is still prepared, and every object
\* whose own preparation succeeded is still submitted to the remote platform.
C10_SiblingsStillSubmitted ==
  (script \in PrepareScripts /\ RunSettled /\ \E i \in DOMAIN unit : unit[i] = "rejected") =>
    \A i \in DOMAIN unit :
      /\ unit[i] # "pending"
      /\ unit[i] = "fulfilled" => IsSubmitted(out[i])

\* C10 (amended): when the preparation of one object fails, the run ends in
\* its error handler and the creation call is not issued: no object of the
\* run is submitted, siblings whose own preparation succeeded included.
C10_FailureAbortsRun ==
  (script \in PrepareScripts /\ \E i \in DOMAIN unit : unit[i] = "rejected") =>
    /\ chain = "failed"
    /\ submitted = <<>>

\* one object was prepared, a sibling's preparation failed, the run is over
C10_Witness ==
  /\ script \in PrepareScripts
  /\ RunSettled
  /\ \E i \in DOMAIN unit : unit[i] = "fulfilled" /\ out[i] # EmptyObject
  /\ \E i \in DOMAIN unit : unit[i] = "rejected"

(***************************************************************************)
(* Batch submission after a failure.                                       *)
(***************************************************************************)
Rejected == {b \in DOMAIN unit : unit[b] = "rejected"}

\* C11: completion of a batch by failure frees its slot as success does:
\* after a batch fails, every batch still pending is eventually started, so
\* every batch of the run is submitted whatever the outcomes of the others.
C11_PendingBatchesEventuallyStart ==
  \A b \in 1..MaxLineItems :
    [](script \in AssociationScripts /\ b \in DOMAIN unit /\ unit[b] = "pending"
         => <>(b \in DOMAIN unit /\ unit[b] # "pending"))

\* C11 (amended): the failure of a batch ends the run: once a batch has failed
\* no batch still pending is ever started and nothing more is submitted; each
\* batch is submitted at most once, and delete-associations submits them in
\* order.
C11_FailureEndsSubmission ==
  /\ [](script \in AssociationScripts =>
          /\ Rejected # {} => chain = "failed" /\ Cardinality(Rejected) = 1 /\ InFlight = 0
          /\ Len(submitted) = Cardinality({b \in DOMAIN unit : unit[b] # "pending"})
          /\ \A c \in 1..Len(submitted) :
               \E b \in DOMAIN unit : unit[b] # "pending" /\ submitted[c] = batches[b]
          /\ \A c, d \in 1..Len(submitted) : c # d => submitted[c] # submitted[d]
          /\ script = "delete-associations" =>
               submitted = [c \in 1..Len(submitted) |-> batches[c]])
  /\ [][(script \in AssociationScripts /\ Rejected # {}) =>
          /\ submitted' = submitted
          /\ \A b \in DOMAIN unit : unit[b] = "pending" => unit'[b] = "pending"]_vars

\* a batch failed while later batches were still pending
C11_Witness ==
  /\ script \in AssociationScripts
  /\ \E b \in Rejected : \E c \in DOMAIN unit : unit[c] = "pending"
  /\ Len(submitted) >= 2

(***************************************************************************)
(* The progress signal.                                                    *)
(***************************************************************************)
Fulfilled == {b \in DOMAIN unit : unit[b] = "fulfilled"}

\* C12: advanceProgress fires exactly once for every batch whose submission
\* completes, whether the submission succeeded or failed.
C12_TickPerCompletedBatch ==
  script \in AssociationScripts => ticks = Cardinality(Fulfilled) + Cardinality(Rejected)

\* C12 (amended): advanceProgress fires exactly once for every batch whose
\* submission succeeded, and not at all for a batch whose submission failed.
C12_TickPerSucceededBatch ==
  script \in AssociationScripts => ticks = Cardinality(Fulfilled)

\* batches succeeded, then one failed
C12_Witness ==
  /\ script \in AssociationScripts
  /\ Cardinality(Fulfilled) >= 2
  /\ Rejected # {}
  /\ ticks = Cardinality(Fulfilled)

(***************************************************************************)
(* What a failed preparation tells its caller.                             *)
(***************************************************************************)
\* C13: when a step of the preparation of a line item, a creative or an order
\* fails, the error delivered to the caller carries the name of the object
\* that failed.
C13_ErrorCarriesObjectName ==
  \A t \in DOMAIN job :
    job[t].pc = "rejected" =>
      /\ "name" \in DOMAIN job[t].orig
      /\ Mentions(job[t].err, job[t].orig.name)

(***************************************************************************)
(* The order of the line items of create-line-items.                       *)
(***************************************************************************)
\* the order reference a line item carries: an id, or a name to be resolved
ReferencesOrder(lineItem, order) ==
  \/ Prop(lineItem, "orderId") = order
  \/ Prop(lineItem, "orderName") = order

\* C14: every line item of a run of create-line-items belongs to the order
\* given by --order: the order reference of each line item handed to the
\* preparation, of each order lookup and of each submitted line item is
\* derived from that argument.
C14_LineItemsBelongToOrderArgument ==
  script = "create-line-items" =>
    /\ \A i \in DOMAIN items : ReferencesOrder(items[i], argv.order)
    /\ \A t \in DOMAIN lk : lk[t].ns = "order" => lk[t].name = argv.order
    /\ \A c \in 1..Len(submitted) : \A k \in 1..Len(submitted[c]) :
         Prop(submitted[c][k], "orderId")
           \in {argv.order, FirstIdOf(RemoteResponse("order", LookupQuery("order", argv.order, None),
                                                "absent")).val}

(***************************************************************************)
(* The order of the prepared objects.                                      *)
(***************************************************************************)
\* C15: the collection of prepared objects handed to the creation call is in
\* input order: for every i its i-th object is the preparation of the i-th
\* input object, whatever the order in which the preparations completed.
C15_SubmittedInInputOrder ==
  script \in PrepareScripts =>
    \A c \in 1..Len(submitted) :
      /\ Len(submitted[c]) = Len(items)
      /\ \A i \in 1..Len(items) :
           /\ job[i].orig = items[i]
           /\ submitted[c][i] = Deref(heap[i], job[i].cur)
           /\ submitted[c][i].name = items[i].name

\* the creation call was issued after preparations that completed out of
\* input order
C15_Witness ==
  /\ script \in PrepareScripts
  /\ submitted # <<>>
  /\ Len(items) >= 2
  /\ \E a, b \in 1..Len(settled) : a < b /\ settled[a] > settled[b]
  /\ \A i, j \in 1..Len(items) : i # j => items[i].name # items[j].name

(***************************************************************************)
(* Remote calls are issued once.                                           *)
(***************************************************************************)
\* C16: every resolution attempt that misses the cache issues exactly one
\* remote call and every batch submission issues exactly one remote call; a
\* failed remote call is never retried and its error reaches the caller.
C16_OneRemoteCallPerAttempt ==
  /\ \A s \in Services : remoteCalls[s] <= starts[s]
  /\ \A t \in DOMAIN lk :
       /\ lk[t].calls <= 1
       /\ lk[t].pc \in {"remote", "put", "failed"} => lk[t].calls = 1
       /\ lk[t].pc = "failed" => lk[t].err # None /\ lk[t].ret = None
  /\ \A t \in DOMAIN job : job[t].pc = "rejected" => job[t].err # None
  /\ script \in AssociationScripts =>
       /\ Len(submitted) = Cardinality({b \in DOMAIN unit : unit[b] # "pending"})
       /\ \A c, d \in 1..Len(submitted) : c # d => submitted[c] # submitted[d]
  /\ script \in PrepareScripts => Len(submitted) <= 1

\* lookups of a run missed the cache, each issued its call, and one call failed
C16_Witness ==
  /\ script = "create-line-items"
  /\ remoteCalls["order"] >= 2
  /\ remoteCalls["order"] = starts["order"]
  /\ \E t \in DOMAIN lk :
       lk[t].pc = "failed" /\ lk[t].err = "remote call failed" /\ lk[t].calls = 1

(***************************************************************************)
(* The order of the steps of prepareLineItem.                              *)
(***************************************************************************)
\* how many steps of prepareLineItem have completed at a position
StepsCompleted(pc) ==
  CASE pc = "replaceStartDate" -> 0
    [] pc \in {"replaceOrderName", "getOrder"} -> 1
    [] pc \in {"replaceAdUnitName", "getAdUnit"} -> 2
    [] pc \in {"addCriteria", "lookupKeys", "lookupValues", "getCriteria"} -> 3
    [] pc = "resolved" -> 4

\* the namespaces a step looks names up in
NamespacesOfStep(n) ==
  CASE n = 1 -> {"order"} [] n = 2 -> {"adUnit"} [] n = 3 -> {"criteriaKey", "criteriaValue"}
    [] OTHER -> {}

\* C17: within one prepareLineItem call the steps run strictly in the order
\* replaceStartDate, replaceOrderName, replaceAdUnitName, addCriteria: a step
\* starts only after the previous one completed successfully, and once a
\* step fails no later step starts and no later lookup is issued.
C17_StepsRunInOrder ==
  /\ [](\A t \in DOMAIN job :
          (job[t].kind = "lineItem" /\ job[t].pc \notin {"idle", "rejected"}) =>
            LET n == StepsCompleted(job[t].pc)
                cur == heap[t][job[t].cur]
                orig == job[t].orig
                Untouched(f) == f \in DOMAIN cur /\ cur[f] = orig[f]
            IN /\ n >= 1 <=> "startDateTime" \in DOMAIN cur
               /\ n >= 2 <=> "orderId" \in DOMAIN cur
               /\ "date" \in DOMAIN orig => (n < 1 <=> Untouched("date"))
               /\ "orderName" \in DOMAIN orig => (n < 2 <=> Untouched("orderName"))
               /\ "adUnitName" \in DOMAIN orig => (n < 3 <=> Untouched("adUnitName"))
               /\ "customCriteriaKVPairs" \in DOMAIN orig =>
                    (n < 4 <=> Untouched("customCriteriaKVPairs"))
               /\ lk[t].pc # "idle" => lk[t].ns \in NamespacesOfStep(n))
  /\ [][\A t \in DOMAIN job :
          /\ (job[t].kind = "lineItem" /\ job[t].pc \notin {"idle", "rejected"}
              /\ job'[t].pc # "rejected") =>
               StepsCompleted(job'[t].pc) - StepsCompleted(job[t].pc) \in {0, 1}
          /\ job[t].pc = "rejected" => job'[t] = job[t] /\ lk'[t] = lk[t]]_vars

\* a line item went through the four steps
C17_Witness ==
  \E t \in DOMAIN job :
    /\ job[t].kind = "lineItem"
    /\ job[t].pc = "resolved"
    /\ job[t].orig = FullLineItem
    /\ Len(heap[t][TargetingRef(job[t].cur)].children) = 1

(***************************************************************************)
(* Lookups the remote platform has no result for.                          *)
(***************************************************************************)
NotFoundErrors ==
  {"Expected to find results, but there were none", "expected to find an id, but didnt"}

\* the remote platform holds no usable result for a request: nothing matches,
\* or the first match has no id
ZeroResults(ns, name, keyId) ==
  LET found == SelectSeq(RemoteEntities(ns),
                         LAMBDA e : Matches(e, LookupQuery(ns, name, keyId).clauses))
  IN found = <<>> \/ "id" \notin DOMAIN found[1]

\* C18: a lookup that misses the cache and for which the remote platform
\* returns zero results (no results field, an empty list, or a first result
\* without an id) fails with a not-found error; it never returns an
\* identifier.
C18_ZeroResultsIsNotFound ==
  \A t \in DOMAIN lk :
    (lk[t].calls = 1 /\ ZeroResults(lk[t].ns, lk[t].name, lk[t].keyId)) =>
      /\ lk[t].pc \in {"remote", "failed"}
      /\ lk[t].id = None /\ lk[t].ret = None
      /\ lk[t].pc = "failed" => lk[t].err \in NotFoundErrors \cup {"remote call failed"}

\* a lookup failed on a first result without an id
C18_Witness ==
  \E t \in DOMAIN lk :
    /\ lk[t].name = "hb_noid"
    /\ lk[t].pc = "failed"
    /\ lk[t].err = "expected to find an id, but didnt"

(***************************************************************************)
(* Lookups the remote platform has several results for.                    *)
(***************************************************************************)
\* the results the remote platform returns for a request, in its order
ResultsFor(ns, name, keyId) ==
  SelectSeq(RemoteEntities(ns), LAMBDA e : Matches(e, LookupQuery(ns, name, keyId).clauses))

\* C19: when the remote platform returns one or more results for a lookup,
\* the identifier returned, and written to the cache, is the id of the first
\* result in the order the server returned them.
C19_FirstResultIsTaken ==
  \A t \in DOMAIN lk :
    (lk[t].calls = 1 /\ lk[t].pc \in {"put", "done"}) =>
      LET results == ResultsFor(lk[t].ns, lk[t].name, lk[t].keyId)
      IN /\ Len(results) >= 1
         /\ lk[t].id = results[1].id
         /\ lk[t].pc = "done" => lk[t].ret = ResultOf(lk[t].ns, results[1].id)
         /\ (lk[t].pc = "done" /\ ~lk[t].putFailed /\ lk[t].ns \in Namespaces) =>
              store[lk[t].ns][WriteKey(lk[t].ns, lk[t].name, lk[t].keyId)] = results[1].id

\* an order name the remote platform holds two orders for was resolved and cached
C19_Witness ==
  \E t \in DOMAIN lk :
    /\ lk[t].ns = "order" /\ lk[t].name = "yo_first_order"
    /\ Len(ResultsFor("order", "yo_first_order", None)) = 2
    /\ lk[t].pc = "done" /\ lk[t].calls = 1
    /\ lk[t].ret = "O2"
    /\ store["order"]["yo_first_order"] = "O2"

(***************************************************************************)
(* Concurrent resolutions.                                                 *)
(***************************************************************************)
\* C20: for every interleaving of concurrent resolutions, of the same name or
\* of distinct names in one namespace, every resolution that completes
\* returns the name's remote identifier, and the cache maps each resolved key
\* to its remote identifier: no entry is lost or overwritten by a write to a
\* different key.
C20_ConcurrentResolutionsAgree ==
  /\ \A t \in DOMAIN lk :
       lk[t].pc = "done" =>
         LET results == ResultsFor(lk[t].ns, lk[t].name, lk[t].keyId)
         IN /\ Len(results) >= 1
            /\ lk[t].ret = ResultOf(lk[t].ns, results[1].id)
  /\ \A r \in Requests :
       LET key == WriteKey(r[1], r[2], r[3]) IN
       r[1] \in Namespaces =>
         /\ (key # Undefined /\ key \in DOMAIN store[r[1]]) =>
              /\ Len(ResultsFor(r[1], r[2], r[3])) >= 1
              /\ store[r[1]][key] = ResultsFor(r[1], r[2], r[3])[1].id
         /\ resolved[r] # None =>
              /\ key \in DOMAIN store[r[1]]
              /\ store[r[1]][key] = resolved[r]
  /\ \A ns \in Namespaces : \A key \in DOMAIN store[ns] :
       \E r \in Requests : r[1] = ns /\ WriteKey(r[1], r[2], r[3]) = key

\* two resolutions raced: of the same name, both missed the cache and both
\* completed, while another name of the namespace is cached as well
C20_Witness ==
  /\ \E t, u \in DOMAIN lk :
       /\ t # u
       /\ lk[t].ns = lk[u].ns /\ lk[t].name = lk[u].name /\ lk[t].keyId = lk[u].keyId
       /\ lk[t].pc = "done" /\ lk[u].pc = "done"
       /\ lk[t].calls = 1 /\ lk[u].calls = 1
       /\ lk[t].ns \in Namespaces \ {"adUnit"}
       /\ Cardinality(DOMAIN store[lk[t].ns]) >= 2

(***************************************************************************)
(* The composite key of the criteria-value cache.                          *)
(***************************************************************************)
\* key ids as the platform issues them (no colon) and value names, some of which
\* hold a colon or look like another pair's key
CompositeKeyPairs ==
  (KeyIds \cup {"K12"}) \X {"0.50", "1.00", "2:0.50", "K2:0.50"}

QueryableWith(conditions, fields) ==
  SelectSeq(fields, LAMBDA f : f \in DOMAIN conditions /\ conditions[f] \notin {"", Undefined})

ClauseText(field, value) == field \o " like '" \o value \o "'"

RECURSIVE JoinAnd(_)
JoinAnd(texts) ==
  IF texts = <<>> THEN ""
  ELSE IF Len(texts) = 1 THEN texts[1]
  ELSE texts[1] \o " and " \o JoinAnd(Tail(texts))

\* C22: the statement _makeQuery builds holds exactly one clause
\* "field like 'value'" for each field of `fields` with a non-empty value in
\* `conditions`, in the order of `fields`, joined by 'and' with no trailing
\* 'and'; other keys of `conditions` and empty or absent values add nothing.
C22_OneClausePerQueryableField ==
  \A t \in DOMAIN lk :
    (lk[t].calls = 1 /\ lk[t].ns # "criteriaValue") =>
      LET c == lk[t].conditions
          present == QueryableWith(c, FieldsOf(lk[t].ns))
      IN /\ lk[t].query.query =
              "Where " \o JoinAnd([i \in 1..Len(present) |-> ClauseText(present[i], c[present[i]])])
         /\ lk[t].query.clauses = [i \in 1..Len(present) |-> <<present[i], c[present[i]]>>]

\* a query on three fields, and one whose conditions hold a key that is not a
\* queryable field, were sent
C22_Witness ==
  \E t, u \in DOMAIN lk :
    /\ lk[t].calls = 1 /\ lk[u].calls = 1
    /\ lk[t].conditions = [name |-> "Acme", id |-> "A2", type |-> "ADVERTISER"]
    /\ lk[t].query.query = "Where id like 'A2' and name like 'Acme' and type like 'ADVERTISER'"
    /\ lk[t].pc = "done" /\ lk[t].ret = "A2"
    /\ lk[u].conditions = [name |-> "Acme", partner |-> "Prebid"]
    /\ lk[u].query.query = "Where name like 'Acme'"
    /\ lk[u].pc = "remote"

\* C23: when no field of `fields` has a non-empty value in `conditions`,
\* _makeQuery does not fail: the statement is the bare 'Where ' with no clause, it
\* is sent to the platform all the same, and what comes back is the first of all
\* the entities of the service.
C23_EmptyFilterMatchesEverything ==
  \A t \in DOMAIN lk :
    (lk[t].calls = 1 /\ lk[t].ns # "criteriaValue"
       /\ QueryableWith(lk[t].conditions, FieldsOf(lk[t].ns)) = <<>>) =>
      /\ lk[t].query = [query |-> "Where ", clauses |-> <<>>]
      /\ remoteCalls[lk[t].ns] >= 1
      /\ lk[t].pc \in {"remote", "put", "done", "failed"}
      /\ lk[t].pc \in {"put", "done"} => lk[t].id = RemoteEntities(lk[t].ns)[1].id
      /\ (lk[t].pc = "failed" /\ ~lk[t].putFailed) => lk[t].err = "remote call failed"

\* a query whose only condition is not a queryable field, and one with no
\* condition at all, returned the first advertiser of the platform
C23_Witness ==
  \E t, u \in DOMAIN lk :
    /\ lk[t].calls = 1 /\ lk[u].calls = 1
    /\ lk[t].conditions = [partner |-> "Prebid"]
    /\ lk[u].conditions = EmptyObject
    /\ lk[t].pc = "done" /\ lk[u].pc = "done"
    /\ lk[t].ret = "A1" /\ lk[u].ret = "A1"
    /\ Len(RemoteEntities("advertiser")) = 2

(***************************************************************************)
(* The lookups of one getCriteria call (checked under SpecPrepare).        *)
(***************************************************************************)
\* the criteria-key and criteria-value lookups of task t's getCriteria call that
\* have started and not yet settled
CriteriaLookupsInFlight(t) ==
  {s \in CallSlots(t) : /\ lk[s].pc \in {"get", "remote", "put"}
                        /\ lk[s].ns \in {"criteriaKey", "criteriaValue"}}

\* C24: within one getCriteria call at most one criteria-key or criteria-value
\* lookup is in flight at any moment, and the value lookup of a pair starts only
\* after the key lookup of that pair has completed: it is made under the key id
\* that lookup returned, when no key lookup of the call is left.
C24_GetCriteriaIsSerialized ==
  \A t \in DOMAIN job :
    /\ Cardinality(CriteriaLookupsInFlight(t)) <= 1
    /\ \A s \in CallSlots(t) :
         (lk[s].pc # "idle" /\ lk[s].ns = "criteriaValue") =>
           /\ job[t].pc = "lookupValues"
           /\ s \in DOMAIN job[t].at
           /\ job[t].keyIds[job[t].at[s]] # None
           /\ lk[s].keyId = job[t].keyIds[job[t].at[s]]
           /\ lk[s].name = job[t].pairs[job[t].at[s]][2]
           /\ \A r \in CallSlots(t) : lk[r].pc # "idle" => lk[r].ns # "criteriaKey"

\* a call with two pairs has resolved one value and waits for the platform's
\* answer on the other
C24_Witness ==
  \E t \in DOMAIN job :
    /\ job[t].pc = "lookupValues"
    /\ Len(job[t].pairs) = 2
    /\ Cardinality({i \in 1..2 : job[t].valueIds[i] # <<>>}) = 1
    /\ \E s \in DOMAIN job[t].at : lk[s].pc = "remote" /\ lk[s].ns = "criteriaValue"

(***************************************************************************)
(* The line item prepareLineItem resolves with (checked under SpecPrepare).*)
(***************************************************************************)
\* the identifier the platform holds for an ad-unit name
RemoteAdUnitId(name) == SelectSeq(RemoteEntities("adUnit"), LAMBDA e : e.name = name)[1].id

\* the children addCriteria appends for the pairs of a line item
ResolvedChildren(pairs) ==
  [i \in 1..Len(pairs) |->
     [type |-> "CustomCriteria", keyId |-> RemoteKeyId(pairs[i][1]),
      valueIds |-> << RemoteValueId(RemoteKeyId(pairs[i][1]), pairs[i][2]) >>,
      operator |-> "IS"]]

\* C25: the line item a successful prepareLineItem resolves with has none of
\* the fields date, orderName, adUnitName, customCriteriaKVPairs; its
\* targetedAdUnits is the one entry of the resolved ad-unit identifier, whatever
\* the input held; and its first criteria set holds the input's children
\* followed by one entry per key/value pair, in the order of the pairs, with
\* that pair's resolved keyId and valueIds.
C25_PreparedLineItemFields ==
  \A t \in DOMAIN job :
    (job[t].kind = "lineItem" /\ job[t].pc = "resolved") =>
      LET result == Deref(heap[t], job[t].cur)
          orig == job[t].orig
      IN /\ DOMAIN result \cap {"date", "orderName", "adUnitName", "customCriteriaKVPairs"} = {}
         /\ result.targeting.targetedAdUnits =
              << [adUnitId |-> RemoteAdUnitId(orig.adUnitName), includeDescendants |-> TRUE] >>
         /\ result.targeting.children =
              orig.targeting.children \o ResolvedChildren(Pairs(orig))

\* a line item with two ad units, one criterion and two pairs was prepared
C25_Witness ==
  \E t \in DOMAIN job :
    /\ job[t].pc = "resolved"
    /\ job[t].orig = TargetedLineItem
    /\ Len(Deref(heap[t], job[t].cur).targeting.targetedAdUnits) = 1
    /\ Len(Deref(heap[t], job[t].cur).targeting.children) = 3

(***************************************************************************)
(* The creation call of create-line-items and create-creatives (checked    *)
(* under SpecScripts).                                                     *)
(***************************************************************************)
\* C26: the creation call is issued at most once per run, only when the
\* preparation of every input object has succeeded, and its one request holds
\* the prepared objects of all of them; when a preparation has failed no
\* creation call is issued, then or later.
C26_SubmissionIsAllOrNothing ==
  /\ [](script \in PrepareScripts =>
          /\ Len(submitted) <= 1
          /\ Len(submitted) = 1 =>
               /\ chain \in {"creating", "succeeded", "failed"}
               /\ \A i \in DOMAIN unit : unit[i] = "fulfilled" /\ job[i].pc = "resolved"
               /\ Len(submitted[1]) = Len(items)
               /\ \A i \in DOMAIN unit : submitted[1][i] = Deref(heap[i], job[i].cur)
          /\ (\E i \in DOMAIN unit : unit[i] = "rejected") => submitted = <<>>
          /\ chain = "mapping" => submitted = <<>>)
  /\ [][(script \in PrepareScripts /\ submitted' # submitted) =>
          (/\ submitted = <<>>
           /\ chain = "mapping" /\ chain' = "creating"
           /\ \A i \in DOMAIN unit : unit'[i] = "fulfilled")]_vars
  /\ [][(script \in PrepareScripts /\ chain = "failed") =>
          (chain' = "failed" /\ submitted' = submitted)]_vars

\* the five creatives were prepared and submitted in one request
C26_Witness ==
  /\ script = "create-creatives"
  /\ chain = "creating"
  /\ Len(submitted) = 1
  /\ Len(submitted[1]) = 5
  /\ \A i \in DOMAIN unit : unit[i] = "fulfilled" /\ submitted[1][i].advertiserId = "A1"

\* prepareCreative / prepareOrder calls whose replacePartnerName has run
PartnerPreparations ==
  {t \in DOMAIN job : job[t].kind = "partner" /\ job[t].pc \notin {"idle", "replacePartnerName"}}

\* C27: advertiser names are never cached: every prepareCreative / prepareOrder
\* issues exactly one remote advertiser lookup, whether or not the same partner
\* name was resolved before, so the remote advertiser lookups of a run are as
\* many as the preparations it made (n creatives, n lookups), and no store
\* namespace holds advertisers.
C27_AdvertiserIsNeverCached ==
  /\ [](/\ "advertiser" \notin Namespaces
        /\ remoteCalls["advertiser"] = Cardinality(PartnerPreparations)
        /\ starts["advertiser"] = remoteCalls["advertiser"])
  /\ [][\A t \in DOMAIN job :
          (job[t].pc = "replacePartnerName" /\ job'[t].pc # "replacePartnerName") =>
             (/\ remoteCalls'["advertiser"] = remoteCalls["advertiser"] + 1
              /\ lk'[t].pc = "remote"
              /\ lk'[t].calls = 1)]_vars

\* create-creatives prepared its five creatives of one advertiser: the fifth
\* lookup was issued although the name had been resolved four times
C27_Witness ==
  /\ script = "create-creatives"
  /\ argv.advertiser = "Prebid"
  /\ resolved[<<"advertiser", "Prebid", None>>] = "A1"
  /\ \A i \in 1..4 : unit[i] = "fulfilled"
  /\ lk[5].pc = "remote"
  /\ lk[5].prior = "A1"
  /\ remoteCalls["advertiser"] = 5

\* the line items referencing order `name` whose preparation was started, and
\* those of them whose replaceOrderName has got its order id
ItemsOfOrder(name) ==
  {t \in DOMAIN job : /\ job[t].kind = "lineItem"
                      /\ Prop(job[t].orig, "orderName") = name}
PastOrderStep == {"replaceAdUnitName", "getAdUnit", "addCriteria", "lookupKeys",
                  "lookupValues", "getCriteria", "resolved"}

FailureLeavesStores ==
  /\ \A ns \in Namespaces : \A key \in DOMAIN store[ns] :
       key \in DOMAIN store'[ns] /\ store'[ns][key] = store[ns][key]
  /\ (\E t \in DOMAIN lk : lk[t].pc # "failed" /\ lk'[t].pc = "failed") => store' = store
  /\ \A t \in DOMAIN lk :
       (/\ lk[t].pc = "get" /\ lk'[t].pc # "get"
        /\ ~StoreHit(store[lk[t].ns], ReadKey(lk[t].ns, lk[t].name, lk[t].keyId))) =>
          /\ lk'[t].pc = "remote"
          /\ remoteCalls'[lk[t].ns] = remoteCalls[lk[t].ns] + 1

\* C29: a resolution that fails, on an error of the remote call or on a response
\* without a usable result, writes, removes and modifies no entry of any store;
\* no lookup ever deletes or changes an existing entry; a name the remote
\* platform has no usable result for is never stored, and a name whose
\* resolution failed and that nobody resolved is not stored either, so that its
\* next resolution misses the cache and queries the remote platform again.
C29_FailedResolutionLeavesCaches ==
  /\ [](\A r \in Requests :
          (r[1] \in Namespaces /\ ZeroResults(r[1], r[2], r[3])) =>
            /\ WriteKey(r[1], r[2], r[3]) \notin DOMAIN store[r[1]]
            /\ ~StoreHit(store[r[1]], ReadKey(r[1], r[2], r[3]))
            /\ resolved[r] = None)
  /\ [](\A t \in DOMAIN lk :
          (lk[t].pc = "failed" /\ resolved[<<lk[t].ns, lk[t].name, lk[t].keyId>>] = None) =>
            /\ WriteKey(lk[t].ns, lk[t].name, lk[t].keyId) \notin DOMAIN store[lk[t].ns]
            /\ ~StoreHit(store[lk[t].ns], ReadKey(lk[t].ns, lk[t].name, lk[t].keyId)))
  /\ [][FailureLeavesStores]_vars

\* a key name the platform does not know failed to resolve for the second time,
\* the remote platform was asked both times, and the order cached meanwhile is
\* still there
C29_Witness ==
  /\ lk[2].pc = "failed"
  /\ lk[2].name = "hb_none"
  /\ lk[2].err \in NotFoundErrors
  /\ starts["criteriaKey"] = 2
  /\ remoteCalls["criteriaKey"] = 2
  /\ store["criteriaKey"] = EmptyStore
  /\ lk[1].pc = "done"
  /\ lk[1].ns = "order"
  /\ store["order"]["yo_first_order"] = "O2"


====
